---- MODULE Spec2Model ----
(***************************************************************************)
(* HLAPIBus (src/src/lib.rs): a request/response client over a character   *)
(* device.  Bytes are integers 0..255; text is a sequence of bytes.        *)
(***************************************************************************)
EXTENDS Integers, Sequences, FiniteSets, TLC

(***************************************************************************)
(* Program constants                                                       *)
(***************************************************************************)
\* const DELIM: &[u8] = b"\0"
DELIM == <<0>>

\* const READ_BUF: usize = 4096
READ_BUF == 4096

\* const MAX_WRITE: usize = 4096
MAX_WRITE == 4096

(***************************************************************************)
(* Text used by the serde attributes (rename_all = "camelCase",            *)
(* tag = "type", content = "data", rename = ...), without the quotes.      *)
(***************************************************************************)
KType == <<116, 121, 112, 101>>                                  \* type
KData == <<100, 97, 116, 97>>                                    \* data
TagList == <<108, 105, 115, 116>>                                \* list
TagMethods == <<109, 101, 116, 104, 111, 100, 115>>              \* methods
TagInvoke == <<105, 110, 118, 111, 107, 101>>                    \* invoke
TagError == <<101, 114, 114, 111, 114>>                          \* error
TagResult == <<114, 101, 115, 117, 108, 116>>                    \* result
KDeviceId == <<100, 101, 118, 105, 99, 101, 73, 100>>            \* deviceId
KTypeNames == <<116, 121, 112, 101, 78, 97, 109, 101, 115>>      \* typeNames
KDevice_id == <<100, 101, 118, 105, 99, 101, 95, 105, 100>>      \* device_id
KName == <<110, 97, 109, 101>>                                   \* name
KParameters == <<112, 97, 114, 97, 109, 101, 116, 101, 114, 115>> \* parameters
KReturnType == <<114, 101, 116, 117, 114, 110, 84, 121, 112, 101>> \* returnType
KDescription == <<100, 101, 115, 99, 114, 105, 112, 116, 105, 111, 110>> \* description
KReturnValueDescription ==
    <<114, 101, 116, 117, 114, 110, 86, 97, 108, 117, 101, 68, 101, 115, 99,
      114, 105, 112, 116, 105, 111, 110>>                        \* returnValueDescription
TxtNull == <<110, 117, 108, 108>>                                \* null

(***************************************************************************)
(* Values of the Rust types.                                               *)
(*   Uuid              32 hexadecimal digits, each 0..15                   *)
(*   String            sequence of bytes                                   *)
(*   Option<String>    [some, v]                                           *)
(***************************************************************************)
None == [some |-> FALSE, v |-> <<>>]
Some(s) == [some |-> TRUE, v |-> s]

\* enum HLAPISend { List, Methods(HLAPIDevice), Invoke { device_id, method_name, parameters } }
\* parameters is a Vec<!>: it has no element, so it is always empty.
SendList == [tag |-> "List", device_id |-> <<>>, method_name |-> <<>>]
SendMethods(d) == [tag |-> "Methods", device_id |-> d, method_name |-> <<>>]
SendInvoke(d, m) == [tag |-> "Invoke", device_id |-> d, method_name |-> m]

\* enum HLAPIReceive { List(Vec<..>), Methods(Vec<..>), Error(Option<String>), Result(Vec<String>) }
RecvList(devs) == [tag |-> "List", devices |-> devs, methods |-> <<>>, msg |-> None, vals |-> <<>>]
RecvMethods(ms) == [tag |-> "Methods", devices |-> <<>>, methods |-> ms, msg |-> None, vals |-> <<>>]
RecvError(m) == [tag |-> "Error", devices |-> <<>>, methods |-> <<>>, msg |-> m, vals |-> <<>>]
RecvResult(vs) == [tag |-> "Result", devices |-> <<>>, methods |-> <<>>, msg |-> None, vals |-> vs]

\* struct HLAPIDeviceDescriptor { device_id, components }
Descriptor(d, cs) == [device_id |-> d, components |-> cs]

\* struct HLAPIType { data }
Type(t) == [data |-> t]

\* struct HLAPIMethod { name, parameters, return_type, description, return_value_description }
Method(n, ps, rt, d, rd) ==
    [name |-> n, parameters |-> ps, return_type |-> rt,
     description |-> d, return_value_description |-> rd]

(***************************************************************************)
(* Serialize (serde_json, compact)                                         *)
(***************************************************************************)
\* The encoded elements ss separated by commas.
RECURSIVE Joined(_)
Joined(ss) ==
    IF ss = <<>> THEN <<>>
    ELSE IF Len(ss) = 1 THEN ss[1]
    ELSE ss[1] \o <<44>> \o Joined(Tail(ss))

\* Mutant: strings are written as they are.
EscapeNothing(s) == s

\* serde_json escapes the quote and the backslash with a backslash.  Strings
\* of the model hold printable ASCII only.
RECURSIVE Escape(_)
Escape(s) ==
    IF \A i \in 1..Len(s) : s[i] \notin {34, 92} THEN s
    ELSE IF s[1] \in {34, 92} THEN <<92, s[1]>> \o Escape(Tail(s))
    ELSE <<s[1]>> \o Escape(Tail(s))

EncStr(s) == <<34>> \o Escape(s) \o <<34>>

\* ss: the encoded elements of the array
EncArr(ss) == <<91>> \o Joined(ss) \o <<93>>

HexChar(n) == IF n < 10 THEN 48 + n ELSE 87 + n

\* Uuid serializes as lower-case hyphenated text, 8-4-4-4-12.
EncUuid(u) ==
    LET h == [i \in 1..32 |-> HexChar(u[i])]
    IN  <<34>> \o SubSeq(h, 1, 8) \o <<45>> \o SubSeq(h, 9, 12) \o <<45>>
             \o SubSeq(h, 13, 16) \o <<45>> \o SubSeq(h, 17, 20) \o <<45>>
             \o SubSeq(h, 21, 32) \o <<34>>

\* {"type":<tag>} or {"type":<tag>,"data":<data>}
EncTagged(tag, hasData, data) ==
    <<123>> \o EncStr(KType) \o <<58>> \o EncStr(tag)
        \o (IF hasData THEN <<44>> \o EncStr(KData) \o <<58>> \o data ELSE <<>>)
        \o <<125>>

\* rename_all on an enum renames its variants, not the fields of a struct
\* variant: device_id keeps its name, method_name is renamed "name".
EncSend(r) ==
    CASE r.tag = "List" -> EncTagged(TagList, FALSE, <<>>)
      [] r.tag = "Methods" -> EncTagged(TagMethods, TRUE, EncUuid(r.device_id))
      [] r.tag = "Invoke" ->
           EncTagged(TagInvoke, TRUE,
               <<123>> \o EncStr(KDevice_id) \o <<58>> \o EncUuid(r.device_id)
                   \o <<44>> \o EncStr(KName) \o <<58>> \o EncStr(r.method_name)
                   \o <<44>> \o EncStr(KParameters) \o <<58, 91, 93>> \o <<125>>)

EncDescriptor(d) ==
    <<123>> \o EncStr(KDeviceId) \o <<58>> \o EncUuid(d.device_id)
        \o <<44>> \o EncStr(KTypeNames) \o <<58>> \o EncArr([i \in 1..Len(d.components) |-> EncStr(d.components[i])])
        \o <<125>>

EncType(t) == <<123>> \o EncStr(KType) \o <<58>> \o EncStr(t.data) \o <<125>>

\* description and return_value_description: skip_serializing_if = "Option::is_none"
EncMethod(m) ==
    <<123>> \o EncStr(KName) \o <<58>> \o EncStr(m.name)
        \o <<44>> \o EncStr(KParameters) \o <<58>> \o EncArr([i \in 1..Len(m.parameters) |-> EncType(m.parameters[i])])
        \o <<44>> \o EncStr(KReturnType) \o <<58>> \o EncStr(m.return_type)
        \o (IF m.description.some
            THEN <<44>> \o EncStr(KDescription) \o <<58>> \o EncStr(m.description.v)
            ELSE <<>>)
        \o (IF m.return_value_description.some
            THEN <<44>> \o EncStr(KReturnValueDescription) \o <<58>>
                     \o EncStr(m.return_value_description.v)
            ELSE <<>>)
        \o <<125>>

EncReceive(r) ==
    CASE r.tag = "List" -> EncTagged(TagList, TRUE, EncArr([i \in 1..Len(r.devices) |-> EncDescriptor(r.devices[i])]))
      [] r.tag = "Methods" -> EncTagged(TagMethods, TRUE, EncArr([i \in 1..Len(r.methods) |-> EncMethod(r.methods[i])]))
      [] r.tag = "Error" ->
           EncTagged(TagError, TRUE, IF r.msg.some THEN EncStr(r.msg.v) ELSE TxtNull)
      [] r.tag = "Result" -> EncTagged(TagResult, TRUE, EncArr([i \in 1..Len(r.vals) |-> EncStr(r.vals[i])]))

(***************************************************************************)
(* Deserialize (serde_json::Deserializer::from_reader): the reader is      *)
(* consumed byte by byte.  Parsing the bytes b available so far gives      *)
(*   "ok"    a complete JSON value v; i is the index of the next byte      *)
(*   "more"  b ends inside the value: the decoder asks for another byte    *)
(*   "bad"   a byte that no JSON text allows at its place                  *)
(* The JSON subset is the one the protocol uses: objects, arrays, strings  *)
(* and null.                                                               *)
(***************************************************************************)
JNull == [k |-> "null", s |-> <<>>, e |-> <<>>, n |-> <<>>]
JStr(s) == [k |-> "str", s |-> s, e |-> <<>>, n |-> <<>>]
JArr(e) == [k |-> "arr", s |-> <<>>, e |-> e, n |-> <<>>]
\* n: the member names, e: the member values, in the order of the text
JObj(n, e) == [k |-> "obj", s |-> <<>>, e |-> e, n |-> n]

POk(v, i) == [st |-> "ok", v |-> v, i |-> i]
PMore == [st |-> "more", v |-> JNull, i |-> 0]
PBad == [st |-> "bad", v |-> JNull, i |-> 0]

WS == {32, 9, 10, 13}

RECURSIVE SkipWs(_, _)
SkipWs(b, i) == IF i <= Len(b) /\ b[i] \in WS THEN SkipWs(b, i + 1) ELSE i

\* The string whose opening quote has been read; j is the next byte and acc
\* the text read so far.  The text runs to the first quote; a backslash
\* escapes the byte after it; a control character is a syntax error.
RECURSIVE ScanStr(_, _, _)
ScanStr(b, j, acc) ==
    LET Special(k) == b[k] = 34 \/ b[k] = 92 \/ b[k] < 32
    IN  IF ~\E k \in j..Len(b) : Special(k) THEN PMore
        ELSE LET k == CHOOSE x \in j..Len(b) :
                          Special(x) /\ \A y \in j..(x - 1) : ~Special(y)
                 text == acc \o SubSeq(b, j, k - 1)
             IN  IF b[k] = 34 THEN POk(JStr(text), k + 1)
                 ELSE IF b[k] < 32 THEN PBad
                 ELSE IF k + 1 > Len(b) THEN PMore
                 ELSE IF b[k + 1] \in {34, 92}
                      THEN ScanStr(b, k + 2, Append(text, b[k + 1]))
                 ELSE PBad

\* The literal null starting at i.
ScanNull(b, i) ==
    LET have == IF Len(b) - i + 1 < 4 THEN Len(b) - i + 1 ELSE 4
    IN  IF SubSeq(b, i, i + have - 1) # SubSeq(TxtNull, 1, have) THEN PBad
        ELSE IF have < 4 THEN PMore
        ELSE POk(JNull, i + 4)

RECURSIVE ParseValue(_, _), ParseElems(_, _, _), ParseMembers(_, _, _, _)

ParseValue(b, i0) ==
    LET i == SkipWs(b, i0)
    IN  IF i > Len(b) THEN PMore
        ELSE IF b[i] = 34 THEN ScanStr(b, i + 1, <<>>)
        ELSE IF b[i] = 110 THEN ScanNull(b, i)
        ELSE IF b[i] = 91
             THEN LET j == SkipWs(b, i + 1)
                  IN  IF j > Len(b) THEN PMore
                      ELSE IF b[j] = 93 THEN POk(JArr(<<>>), j + 1)
                      ELSE ParseElems(b, j, <<>>)
        ELSE IF b[i] = 123
             THEN LET j == SkipWs(b, i + 1)
                  IN  IF j > Len(b) THEN PMore
                      ELSE IF b[j] = 125 THEN POk(JObj(<<>>, <<>>), j + 1)
                      ELSE ParseMembers(b, j, <<>>, <<>>)
        ELSE PBad

\* The elements of an array from i0 on, up to the closing bracket.
ParseElems(b, i0, acc) ==
    LET r == ParseValue(b, i0)
    IN  IF r.st # "ok" THEN r
        ELSE LET j == SkipWs(b, r.i)
             IN  IF j > Len(b) THEN PMore
                 ELSE IF b[j] = 44 THEN ParseElems(b, j + 1, Append(acc, r.v))
                 ELSE IF b[j] = 93 THEN POk(JArr(Append(acc, r.v)), j + 1)
                 ELSE PBad

\* The members of an object from i0 on, up to the closing brace.
ParseMembers(b, i0, names, vals) ==
    LET i == SkipWs(b, i0)
    IN  IF i > Len(b) THEN PMore
        ELSE IF b[i] # 34 THEN PBad
        ELSE LET key == ScanStr(b, i + 1, <<>>)
             IN  IF key.st # "ok" THEN key
                 ELSE LET c == SkipWs(b, key.i)
                      IN  IF c > Len(b) THEN PMore
                          ELSE IF b[c] # 58 THEN PBad
                          ELSE LET r == ParseValue(b, c + 1)
                               IN  IF r.st # "ok" THEN r
                                   ELSE LET j == SkipWs(b, r.i)
                                        IN  IF j > Len(b) THEN PMore
                                            ELSE IF b[j] = 44
                                                 THEN ParseMembers(b, j + 1,
                                                          Append(names, key.v.s),
                                                          Append(vals, r.v))
                                            ELSE IF b[j] = 125
                                                 THEN POk(JObj(Append(names, key.v.s),
                                                               Append(vals, r.v)), j + 1)
                                            ELSE PBad

(***************************************************************************)
(* The derived Deserialize implementations, on a parsed JSON value.        *)
(* Each gives [ok, v]; ok = FALSE is a serde data error.                   *)
(***************************************************************************)
Count(o, name) == Cardinality({i \in 1..Len(o.n) : o.n[i] = name})
Has(o, name) == Count(o, name) = 1
Get(o, name) == o.e[CHOOSE i \in 1..Len(o.n) : o.n[i] = name]
\* A field given twice is a "duplicate field" error.
NoDup(o) == \A i, j \in 1..Len(o.n) : o.n[i] = o.n[j] => i = j

IsHex(c) == c \in 48..57 \/ c \in 97..102 \/ c \in 65..70
HexVal(c) == IF c \in 48..57 THEN c - 48 ELSE IF c \in 97..102 THEN c - 87 ELSE c - 55

\* Uuid from its hyphenated text; either case of the hexadecimal digits.
DecUuid(j) ==
    LET t == j.s
        ok == /\ j.k = "str"
              /\ Len(t) = 36
              /\ \A i \in 1..36 : IF i \in {9, 14, 19, 24} THEN t[i] = 45 ELSE IsHex(t[i])
        d == [i \in 1..36 |-> IF i \in {9, 14, 19, 24} THEN 0 ELSE HexVal(t[i])]
    IN  [ok |-> ok,
         v |-> IF ok THEN SubSeq(d, 1, 8) \o SubSeq(d, 10, 13) \o SubSeq(d, 15, 18)
                              \o SubSeq(d, 20, 23) \o SubSeq(d, 25, 36)
               ELSE <<>>]

\* Vec<String>
DecStrings(j) ==
    LET ok == j.k = "arr" /\ \A i \in 1..Len(j.e) : j.e[i].k = "str"
    IN  [ok |-> ok, v |-> IF ok THEN [i \in 1..Len(j.e) |-> j.e[i].s] ELSE <<>>]

\* Option<String> of a field that may be missing
DecOptString(o, name) ==
    IF ~Has(o, name) THEN [ok |-> Count(o, name) = 0, v |-> None]
    ELSE LET j == Get(o, name)
         IN  IF j.k = "null" THEN [ok |-> TRUE, v |-> None]
             ELSE IF j.k = "str" THEN [ok |-> TRUE, v |-> Some(j.s)]
             ELSE [ok |-> FALSE, v |-> None]

\* Mutant: both fields default when missing, as #[serde(default)] would do.
DecDescriptorDefaults(j) ==
    LET ok1 == j.k = "obj" /\ NoDup(j)
        id == IF ok1 /\ Has(j, KDeviceId) THEN DecUuid(Get(j, KDeviceId))
              ELSE [ok |-> TRUE, v |-> [i \in 1..32 |-> 0]]
        cs == IF ok1 /\ Has(j, KTypeNames) THEN DecStrings(Get(j, KTypeNames))
              ELSE [ok |-> TRUE, v |-> <<>>]
        ok == ok1 /\ id.ok /\ cs.ok
    IN  [ok |-> ok, v |-> IF ok THEN Descriptor(id.v, cs.v) ELSE Descriptor(<<>>, <<>>)]

\* HLAPIDeviceDescriptor: deviceId and typeNames, both required
DecDescriptor(j) ==
    LET ok1 == j.k = "obj" /\ NoDup(j) /\ Has(j, KDeviceId) /\ Has(j, KTypeNames)
        id == DecUuid(Get(j, KDeviceId))
        cs == DecStrings(Get(j, KTypeNames))
        ok == ok1 /\ id.ok /\ cs.ok
    IN  [ok |-> ok, v |-> IF ok THEN Descriptor(id.v, cs.v) ELSE Descriptor(<<>>, <<>>)]

\* HLAPIType: {"type": String}
DecType(j) ==
    LET ok == j.k = "obj" /\ NoDup(j) /\ Has(j, KType) /\ Get(j, KType).k = "str"
    IN  [ok |-> ok, v |-> IF ok THEN Type(Get(j, KType).s) ELSE Type(<<>>)]

\* HLAPIMethod: name and returnType required, parameters defaults to empty,
\* the two descriptions are optional
DecMethod(j) ==
    LET ok1 == /\ j.k = "obj" /\ NoDup(j)
               /\ Has(j, KName) /\ Get(j, KName).k = "str"
               /\ Has(j, KReturnType) /\ Get(j, KReturnType).k = "str"
        ps == IF ok1 /\ Has(j, KParameters) THEN Get(j, KParameters) ELSE JArr(<<>>)
        okp == ps.k = "arr" /\ \A i \in 1..Len(ps.e) : DecType(ps.e[i]).ok
        d == DecOptString(j, KDescription)
        rd == DecOptString(j, KReturnValueDescription)
        ok == ok1 /\ okp /\ d.ok /\ rd.ok
    IN  [ok |-> ok,
         v |-> IF ok
               THEN Method(Get(j, KName).s, [i \in 1..Len(ps.e) |-> DecType(ps.e[i]).v],
                           Get(j, KReturnType).s, d.v, rd.v)
               ELSE Method(<<>>, <<>>, <<>>, None, None)]

DecFail == [ok |-> FALSE, v |-> RecvError(None)]

\* HLAPIReceive, adjacently tagged: {"type": tag, "data": content}.  The tag
\* names the variant; the content is decoded as that variant's data.
DecReceive(j) ==
    IF ~(j.k = "obj" /\ NoDup(j) /\ Has(j, KType) /\ Get(j, KType).k = "str") THEN DecFail
    ELSE LET tag == Get(j, KType).s
             hasData == Has(j, KData)
             data == IF hasData THEN Get(j, KData) ELSE JNull
         IN  IF tag = TagList
             THEN IF hasData /\ data.k = "arr" /\ \A i \in 1..Len(data.e) : DecDescriptor(data.e[i]).ok
                  THEN [ok |-> TRUE,
                        v |-> RecvList([i \in 1..Len(data.e) |-> DecDescriptor(data.e[i]).v])]
                  ELSE DecFail
             ELSE IF tag = TagMethods
             THEN IF hasData /\ data.k = "arr" /\ \A i \in 1..Len(data.e) : DecMethod(data.e[i]).ok
                  THEN [ok |-> TRUE,
                        v |-> RecvMethods([i \in 1..Len(data.e) |-> DecMethod(data.e[i]).v])]
                  ELSE DecFail
             ELSE IF tag = TagError
             THEN IF data.k = "null" THEN [ok |-> TRUE, v |-> RecvError(None)]
                  ELSE IF data.k = "str" THEN [ok |-> TRUE, v |-> RecvError(Some(data.s))]
                  ELSE DecFail
             ELSE IF tag = TagResult
             THEN IF hasData /\ DecStrings(data).ok
                  THEN [ok |-> TRUE, v |-> RecvResult(DecStrings(data).v)]
                  ELSE DecFail
             ELSE DecFail

\* HLAPISend, adjacently tagged.  List is a unit variant: it has no content.
\* The fields of Invoke are all required; parameters is an array whose
\* elements would have to be values of `!`, so it decodes only when empty.
DecSend(j) ==
    IF ~(j.k = "obj" /\ NoDup(j) /\ Has(j, KType) /\ Get(j, KType).k = "str")
    THEN [ok |-> FALSE, v |-> SendList]
    ELSE LET tag == Get(j, KType).s
             hasData == Has(j, KData)
             data == IF hasData THEN Get(j, KData) ELSE JNull
             inv == /\ data.k = "obj" /\ NoDup(data)
                    /\ Has(data, KDevice_id) /\ DecUuid(Get(data, KDevice_id)).ok
                    /\ Has(data, KName) /\ Get(data, KName).k = "str"
                    /\ Has(data, KParameters) /\ Get(data, KParameters) = JArr(<<>>)
         IN  IF tag = TagList
             THEN [ok |-> data.k = "null", v |-> SendList]
             ELSE IF tag = TagMethods /\ hasData /\ DecUuid(data).ok
             THEN [ok |-> TRUE, v |-> SendMethods(DecUuid(data).v)]
             ELSE IF tag = TagInvoke /\ hasData /\ inv
             THEN [ok |-> TRUE,
                   v |-> SendInvoke(DecUuid(Get(data, KDevice_id)).v, Get(data, KName).s)]
             ELSE [ok |-> FALSE, v |-> SendList]

(***************************************************************************)
(* Bounds of the model and the inputs drawn within them                    *)
(***************************************************************************)
\* calls made on the bus in one session
MaxCalls == 2

\* pieces in which the peer delivers one reply stream
MaxChunks == 2

\* the method names of the Invoke requests given to write() are at most this
\* much shorter or longer than the longest name that fits
NameSlack == 12

\* the device lists, method lists, parameter lists and result lists that are
\* encoded and decoded again have at most this many elements
MaxItems == 2

UuidA == [i \in 1..32 |-> IF i = 32 THEN 10 ELSE 0]
UuidB == [i \in 1..32 |-> IF i = 32 THEN 11 ELSE 0]

turtle == <<116, 117, 114, 116, 108, 101>>                       \* turtle
inventory == <<105, 110, 118, 101, 110, 116, 111, 114, 121>>     \* inventory
camera == <<99, 97, 109, 101, 114, 97>>                          \* camera
radar == <<114, 97, 100, 97, 114>>                               \* radar
move == <<109, 111, 118, 101>>                                   \* move
int == <<105, 110, 116>>                                         \* int
bool == <<98, 111, 111, 108>>                                    \* bool
DeviceNotFound ==
    <<100, 101, 118, 105, 99, 101, 32, 110, 111, 116, 32, 102, 111, 117, 110, 100>>
                                                                 \* device not found

ListReply ==
    RecvList(<<Descriptor(UuidA, <<turtle, inventory>>), Descriptor(UuidB, <<camera>>)>>)
\* the same devices in the other order, both turtles
ListReply2 ==
    RecvList(<<Descriptor(UuidB, <<camera, turtle>>), Descriptor(UuidA, <<turtle>>)>>)
MethodsReply == RecvMethods(<<Method(move, <<Type(int)>>, bool, None, None)>>)
ErrorReply == RecvError(Some(DeviceNotFound))
ResultReply == RecvResult(<<>>)

Envelope(payload) == DELIM \o payload \o DELIM

\* The values that are encoded and decoded again.
quoted == <<97, 34, 98, 92>>                                     \* a"b\
SeqsUpTo(S, n) == UNION {[1..k -> S] : k \in 0..n}
SomeStrings == {<<>>, move, quoted}
SomeDescriptors ==
    { Descriptor(UuidA, <<turtle, inventory>>), Descriptor(UuidB, <<camera>>),
      Descriptor(UuidB, <<quoted>>) }
SomeMethods ==
    { Method(move, ps, bool, None, None) : ps \in SeqsUpTo({Type(int), Type(quoted)}, MaxItems) }
        \cup { Method(quoted, <<Type(bool)>>, int, Some(DeviceNotFound), None),
               Method(move, <<>>, <<>>, Some(quoted), Some(<<>>)) }
SomeRequests ==
    {SendList} \cup {SendMethods(d) : d \in {UuidA, UuidB}}
        \cup {SendInvoke(d, n) : d \in {UuidA, UuidB}, n \in SomeStrings}
SomeReplies ==
    {RecvList(ds) : ds \in SeqsUpTo(SomeDescriptors, MaxItems)}
        \cup {RecvMethods(ms) : ms \in SeqsUpTo(SomeMethods, MaxItems)}
        \cup {RecvError(None)} \cup {RecvError(Some(m)) : m \in SomeStrings \cup {DeviceNotFound}}
        \cup {RecvResult(vs) : vs \in SeqsUpTo(SomeStrings, MaxItems)}
CodecInputs ==
    {[side |-> "send", v |-> r] : r \in SomeRequests}
        \cup {[side |-> "recv", v |-> r] : r \in SomeReplies}

\* The byte streams the peer may answer a request with: the four kinds of
\* well-formed envelope; the malformed ones (no leading delimiter, no
\* trailing delimiter, a payload cut short, a payload cut short and then a
\* delimiter); and two envelopes back to back.
\* The reply values of the well-formed envelopes, in the order of
\* WellFormedStreams.
PeerValues == <<ListReply, MethodsReply, ErrorReply, ResultReply>>

WellFormedStreams ==
    << Envelope(EncReceive(ListReply)),
       Envelope(EncReceive(MethodsReply)),
       Envelope(EncReceive(ErrorReply)),
       Envelope(EncReceive(ResultReply)) >>

MalformedStreams ==
    << EncReceive(MethodsReply) \o DELIM,
       DELIM \o EncReceive(MethodsReply),
       DELIM \o SubSeq(EncReceive(ErrorReply), 1, Len(EncReceive(ErrorReply)) \div 2),
       DELIM \o SubSeq(EncReceive(ErrorReply), 1, Len(EncReceive(ErrorReply)) \div 2)
             \o DELIM >>

DoubleStreams ==
    << Envelope(EncReceive(ListReply2)) \o Envelope(EncReceive(MethodsReply)) >>

\* A well-formed envelope whose payload is no reply value: the data of
\* MethodsReply under the tag of a device list.
MisTaggedList ==
    EncTagged(TagList, TRUE,
        EncArr([i \in 1..Len(MethodsReply.methods) |-> EncMethod(MethodsReply.methods[i])]))

MisTaggedStreams == << Envelope(MisTaggedList) >>

PeerStreams == WellFormedStreams \o MalformedStreams \o DoubleStreams \o MisTaggedStreams

\* The places of the malformed streams in PeerStreams.
Malformed ==
    (Len(WellFormedStreams) + 1)..(Len(WellFormedStreams) + Len(MalformedStreams))

\* A device list whose envelope is longer than READ_BUF bytes: one device
\* with a type name of READ_BUF letters.
BigReply == RecvList(<<Descriptor(UuidA, <<[i \in 1..READ_BUF |-> 97]>>)>>)
BigStreams == << Envelope(EncReceive(BigReply)) >>

\* All the streams; the long one is the last.
AllStreams == PeerStreams \o BigStreams
Big == Len(AllStreams)

\* The streams that are one well-formed envelope.
Orderly == (1..Len(WellFormedStreams)) \cup {Big}

\* The places in PeerStreams of the streams whose first byte is the delimiter
\* and whose payload, though all there up to a delimiter, is no reply value:
\* the payload cut short and then a delimiter, and the mis-tagged list.
CutThenDelim == Len(WellFormedStreams) + Len(MalformedStreams)
MisTagged == Len(PeerStreams)
Undecodable == {CutThenDelim, MisTagged}

\* The sizes of the next piece of a stream of which n bytes are left.
ChunkSizes(n) == {k \in {1, n \div 2, n - 1, n} : 1 <= k /\ k <= n}

\* The calls a caller makes.
NoOp == [name |-> "none", device |-> <<>>, cname |-> <<>>]
Ops ==
    { [name |-> "list", device |-> <<>>, cname |-> <<>>],
      [name |-> "methods", device |-> UuidA, cname |-> <<>>],
      [name |-> "find", device |-> <<>>, cname |-> turtle],
      [name |-> "find", device |-> <<>>, cname |-> radar] }

(***************************************************************************)
(* IOResult values: Ok(devices) / Ok(methods) / Ok(device) / Err(kind)     *)
(***************************************************************************)
\* err is the ErrorKind; msg is the message the error carries, if any.
NoResult ==
    [ok |-> FALSE, err |-> "none", msg |-> None,
     devices |-> <<>>, methods |-> <<>>, device |-> <<>>]
\* IOErrorKind::X.into(): an error of that kind, with no message
Err(kind) ==
    [ok |-> FALSE, err |-> kind, msg |-> None,
     devices |-> <<>>, methods |-> <<>>, device |-> <<>>]
OkDevices(ds) ==
    [ok |-> TRUE, err |-> "none", msg |-> None,
     devices |-> ds, methods |-> <<>>, device |-> <<>>]
OkMethods(ms) ==
    [ok |-> TRUE, err |-> "none", msg |-> None,
     devices |-> <<>>, methods |-> ms, device |-> <<>>]
OkDevice(d) ==
    [ok |-> TRUE, err |-> "none", msg |-> None,
     devices |-> <<>>, methods |-> <<>>, device |-> d]

(***************************************************************************)
(* HLAPIBus::write: the envelope is built in an ArrayVec<u8, MAX_WRITE>.   *)
(***************************************************************************)
\* Mutant: a buffer that grows, as a Vec would.
ArrayVecWriteAllUnbounded(buffer, data) == [ok |-> TRUE, buffer |-> buffer \o data]

\* Write::write_all on the ArrayVec: what fits is copied; when something is
\* left over the next write copies 0 bytes and write_all fails (WriteZero).
ArrayVecWriteAll(buffer, data) ==
    IF Len(buffer) + Len(data) <= MAX_WRITE
    THEN [ok |-> TRUE, buffer |-> buffer \o data]
    ELSE [ok |-> FALSE, buffer |-> buffer \o SubSeq(data, 1, MAX_WRITE - Len(buffer))]

\* Mutant: the buffer starts with the request, without the delimiter.
WriteBufferNoLead(req) ==
    LET b2 == ArrayVecWriteAll(<<>>, EncSend(req))
        b3 == ArrayVecWriteAll(b2.buffer, DELIM)
    IN  IF ~b2.ok THEN [ok |-> FALSE, err |-> "InvalidData", buffer |-> b2.buffer]
        ELSE IF ~b3.ok THEN [ok |-> FALSE, err |-> "WriteZero", buffer |-> b3.buffer]
        ELSE [ok |-> TRUE, err |-> "none", buffer |-> b3.buffer]

\* Lines 136-140: [ok, err, buffer].  A failure of to_writer is mapped to
\* InvalidData, a failure of write_all(DELIM) stays WriteZero.
WriteBuffer(req) ==
    LET b1 == ArrayVecWriteAll(<<>>, DELIM)
        b2 == ArrayVecWriteAll(b1.buffer, EncSend(req))
        b3 == ArrayVecWriteAll(b2.buffer, DELIM)
    IN  IF ~b1.ok THEN [ok |-> FALSE, err |-> "WriteZero", buffer |-> b1.buffer]
        ELSE IF ~b2.ok THEN [ok |-> FALSE, err |-> "InvalidData", buffer |-> b2.buffer]
        ELSE IF ~b3.ok THEN [ok |-> FALSE, err |-> "WriteZero", buffer |-> b3.buffer]
        ELSE [ok |-> TRUE, err |-> "none", buffer |-> b3.buffer]

\* The request a call writes (lines 113, 121, 129).  "write" is write()
\* itself, given an Invoke request: the one request of unbounded size.
Request(o) ==
    IF o.name = "methods" THEN SendMethods(o.device)
    ELSE IF o.name = "write" THEN SendInvoke(o.device, o.cname)
    ELSE SendList

(***************************************************************************)
(* HLAPIBus::read after the readiness wait.  The handle is a blocking      *)
(* file: a read of an empty handle waits for data, and gives 0 bytes only  *)
(* when the peer has hung up.  The StackBufReader takes up to READ_BUF     *)
(* bytes from the handle whenever its buffer is empty and a byte is asked  *)
(* for.                                                                    *)
(***************************************************************************)
RBlock(phase, acc, strm) ==
    [st |-> "block", phase |-> phase, acc |-> acc, buf |-> <<>>, stream |-> strm,
     err |-> "none", v |-> RecvError(None)]
RErr(kind, b, strm) ==
    [st |-> "err", phase |-> "done", acc |-> <<>>, buf |-> b, stream |-> strm,
     err |-> kind, v |-> RecvError(None)]
ROk(v, b, strm) ==
    [st |-> "ok", phase |-> "done", acc |-> <<>>, buf |-> b, stream |-> strm,
     err |-> "none", v |-> v]

\* check_delim with the byte c at the front of the buffer
DelimOk(c) == <<c>> = DELIM

Min(a, b) == IF a <= b THEN a ELSE b

\* Mutant: read() returns the data as soon as it is decoded.
AfterPayloadReturns == "done"

\* Line 171: after the payload the second delimiter is checked.
AfterPayload == "trail"

\* Mutant: the delimiter is looked at and given back to the handle.
TrailPeeked(acc, b, strm) ==
    IF DelimOk(b[1]) THEN ROk(DecReceive(ParseValue(acc, 1).v).v, <<>>, b \o strm)
    ELSE RErr("UnexpectedEof", <<>>, b \o strm)

\* Lines 171-173: the second check_delim, with its byte at the front of the
\* reader's buffer b, then Ok(data); acc is the payload data was decoded from.
Trail(acc, b, strm) ==
    IF DelimOk(b[1]) THEN ROk(DecReceive(ParseValue(acc, 1).v).v, Tail(b), strm)
    ELSE RErr("UnexpectedEof", Tail(b), strm)

\* Runs read() from the point it had reached (phase, acc: the payload bytes
\* the decoder has consumed, b: the bytes in the reader's buffer) until it
\* returns or has to wait for the handle.
RECURSIVE RunRead(_, _, _, _, _)
RunRead(phase, acc, b, strm, eof) ==
    IF phase = "done" THEN ROk(DecReceive(ParseValue(acc, 1).v).v, b, strm)
    ELSE IF b = <<>>
    THEN IF strm # <<>>
         THEN LET n == Min(Len(strm), READ_BUF)
              IN  RunRead(phase, acc, SubSeq(strm, 1, n), SubSeq(strm, n + 1, Len(strm)), eof)
         ELSE IF eof
         \* 0 bytes read: check_delim finds bytes_read # 1, the decoder
         \* reports "EOF while parsing", both UnexpectedEof
         THEN RErr("UnexpectedEof", <<>>, strm)
         ELSE RBlock(phase, acc, strm)
    ELSE IF phase = "lead"
    THEN IF DelimOk(b[1]) THEN RunRead("payload", <<>>, Tail(b), strm, eof)
         ELSE RErr("UnexpectedEof", Tail(b), strm)
    ELSE IF phase = "payload"
    THEN LET p == ParseValue(acc \o b, 1)
             rest == SubSeq(b, p.i - Len(acc), Len(b))
         IN  IF p.st = "more" THEN RunRead("payload", acc \o b, <<>>, strm, eof)
             ELSE IF p.st = "bad" THEN RErr("InvalidData", <<>>, strm)
             ELSE IF ~DecReceive(p.v).ok THEN RErr("InvalidData", rest, strm)
             ELSE RunRead(AfterPayload, SubSeq(acc \o b, 1, p.i - 1), rest, strm, eof)
    ELSE \* phase = "trail": acc is the payload, already decoded into data
         Trail(acc, b, strm)

(***************************************************************************)
(* The logical operations, from the result of read() on.                   *)
(***************************************************************************)
\* Mutant: the devices of the reply whatever its tag.
listAnyTag(rd) ==
    IF rd.st = "err" THEN Err(rd.err) ELSE OkDevices(rd.v.devices)

\* Mutant: the devices in the opposite order.
listReversed(rd) ==
    IF rd.st = "err" THEN Err(rd.err)
    ELSE IF rd.v.tag = "List"
    THEN OkDevices([i \in 1..Len(rd.v.devices) |-> rd.v.devices[Len(rd.v.devices) + 1 - i]])
    ELSE Err("InvalidData")

\* lines 114-117: rd is what read() returned
list(rd) ==
    IF rd.st = "err" THEN Err(rd.err)
    ELSE IF rd.v.tag = "List" THEN OkDevices(rd.v.devices)
    ELSE Err("InvalidData")

\* lines 122-125
methods(rd) ==
    IF rd.st = "err" THEN Err(rd.err)
    ELSE IF rd.v.tag = "Methods" THEN OkMethods(rd.v.methods)
    ELSE Err("InvalidData")

\* components.into_iter().any(|dev| name == dev)
Matches(d, name) == \E i \in 1..Len(d.components) : d.components[i] = name

\* Mutant: the last descriptor that matches instead of the first.
findLast(name, l) ==
    IF ~l.ok THEN l
    ELSE IF \E i \in 1..Len(l.devices) : Matches(l.devices[i], name)
    THEN OkDevice(l.devices[CHOOSE i \in 1..Len(l.devices) :
                      /\ Matches(l.devices[i], name)
                      /\ \A j \in (i + 1)..Len(l.devices) :
                             ~Matches(l.devices[j], name)].device_id)
    ELSE Err("NotFound")

\* Mutant: the device found for an earlier list, not a scan of this one.
findRemembered(name, l) ==
    IF ~l.ok THEN l ELSE OkDevice(UuidA)

\* lines 129-132: l is what list() returned
find(name, l) ==
    IF ~l.ok THEN l
    ELSE IF \E i \in 1..Len(l.devices) : Matches(l.devices[i], name)
    THEN OkDevice(l.devices[CHOOSE i \in 1..Len(l.devices) :
                      /\ Matches(l.devices[i], name)
                      /\ \A j \in 1..(i - 1) : ~Matches(l.devices[j], name)].device_id)
    ELSE Err("NotFound")

\* What the call o returns once read() has returned rd.
Finish(o, rd) ==
    CASE o.name = "list" -> list(rd)
      [] o.name = "methods" -> methods(rd)
      [] o.name = "find" -> find(o.cname, list(rd))

(***************************************************************************)
(* State                                                                   *)
(***************************************************************************)
VARIABLES
    stage,      \* of the current call: IDLE, WRITING, AWAITING_READY, READING, SUCCESS, FAILED
    op,         \* the current call
    ncalls,     \* calls started in this session
    trace,      \* the stages the current call has gone through
    handed,     \* the byte sequences the current call passed to handle.write_all
    inflight,   \* envelopes written whose call has not ended
    unanswered, \* 1 when the peer has a request to answer (it answers the last
                \* one it received), 0 when it has none
    got,        \* the first stream the peer answered with during the current call, 0: none
    peerLeft,   \* the rest of the stream the peer is sending
    chunks,     \* pieces of that stream sent so far
    stream,     \* bytes the peer has sent and the handle has not given out yet
    hup,        \* the peer has hung up
    phase,      \* where read() is: lead, payload, trail
    acc,        \* payload bytes the decoder has consumed
    buf,        \* bytes in the StackBufReader when read() returned
    taken,      \* bytes read() has taken from the handle
    reply,      \* what read() returned
    result,     \* what the call returned
    session,    \* the calls that have ended: ok, mismatch, lost (see CallEnds)
    lastFind,   \* the call before this one, when it was a find() that succeeded
    given,      \* a request or reply value to encode
    wire,       \* its envelope
    back,       \* what decoding the payload of that envelope gave
    lastReset   \* what the reset() run since the last call did

vars == <<stage, op, ncalls, trace, handed, inflight, unanswered, got, peerLeft, chunks,
          stream, hup, phase, acc, buf, taken, reply, result, session, lastFind, given, wire, back, lastReset>>

codecVars == <<given, wire, back>>
peerVars == <<unanswered, peerLeft, chunks, stream, hup>>
readVars == <<phase, acc, buf, taken, reply>>

NoReply == [st |-> "block", err |-> "none", v |-> RecvError(None)]

\* reset(): wrote is what it passed to handle.write_all, flushed whether it
\* went on to handle.flush, ok whether it came to its end, err the error
\* that `?` left it with.
NoReset == [done |-> FALSE, wrote |-> <<>>, flushed |-> FALSE, ok |-> FALSE, err |-> "none"]

NoGiven == [side |-> "none", v |-> SendList]
NoBack == [done |-> FALSE, ok |-> FALSE, v |-> SendList]

\* No find() that succeeded came just before.
NoFind == [cname |-> <<>>, stream |-> 0, device |-> <<>>]

\* What the calls ended so far say about the byte stream, once one more call
\* has ended: readOk tells whether its read() returned a reply, ok whether
\* the call succeeded.
\*   ok:       every call read its reply and succeeded
\*   mismatch: every call read its reply, at least one then failed on it
\*   lost:     a call ended without a reply read in full, or the peer sent
\*             something else than one well-formed envelope per request
CallEnds(s, readOk, ok) ==
    IF ~readOk THEN "lost"
    ELSE IF ok THEN s
    ELSE IF s = "ok" THEN "mismatch"
    ELSE s

Init ==
    /\ stage = "IDLE"
    /\ op = NoOp
    /\ ncalls = 0
    /\ trace = <<>>
    /\ handed = <<>>
    /\ inflight = 0
    /\ unanswered = 0
    /\ got = 0
    /\ peerLeft = <<>>
    /\ chunks = 0
    /\ stream = <<>>
    /\ hup = FALSE
    /\ phase = "none"
    /\ acc = <<>>
    /\ buf = <<>>
    /\ taken = 0
    /\ reply = NoReply
    /\ result = NoResult
    /\ session = "ok"
    /\ lastFind = NoFind
    /\ given = NoGiven
    /\ wire = <<>>
    /\ back = NoBack
    /\ lastReset = NoReset

(***************************************************************************)
(* The caller                                                              *)
(***************************************************************************)
\* Mutant: a call may start while another one waits for its reply.
CanCallWhileWaiting == stage \in {"IDLE", "AWAITING_READY"}

\* The calls take &mut self and return when done: a call starts only when
\* no other call is running.
CanCall == stage = "IDLE"

\* list(), methods(device) or find(name) is called.
Call(o) ==
    /\ CanCall
    /\ ncalls < MaxCalls
    /\ stage' = "WRITING"
    /\ op' = o
    /\ ncalls' = ncalls + 1
    /\ trace' = <<"WRITING">>
    /\ handed' = <<>>
    /\ result' = NoResult
    /\ got' = 0
    /\ lastReset' = NoReset
    /\ UNCHANGED <<inflight, peerVars, readVars, session, lastFind, codecVars>>

\* The call has returned to its caller; the locals of the call are gone.
Return ==
    /\ stage \in {"SUCCESS", "FAILED"}
    /\ stage' = "IDLE"
    /\ op' = NoOp
    /\ trace' = <<>>
    /\ handed' = <<>>
    /\ phase' = "none"
    /\ acc' = <<>>
    /\ buf' = <<>>
    /\ taken' = 0
    /\ reply' = NoReply
    /\ result' = NoResult
    /\ got' = 0
    /\ lastFind' = IF op.name = "find" /\ stage = "SUCCESS"
                   THEN [cname |-> op.cname, stream |-> got, device |-> result.device]
                   ELSE NoFind
    /\ UNCHANGED <<ncalls, inflight, peerVars, session, codecVars, lastReset>>

\* Mutant: a call that fails starts over with its write.
EndRetries(st, r) ==
    /\ stage' = IF st = "FAILED" THEN "WRITING" ELSE st
    /\ trace' = Append(trace, IF st = "FAILED" THEN "WRITING" ELSE st)
    /\ result' = r
    /\ inflight' = 0

\* The call ends: `?` or the last expression returns r to the caller.
End(st, r) ==
    /\ stage' = st
    /\ trace' = Append(trace, st)
    /\ result' = r
    /\ inflight' = 0

(***************************************************************************)
(* WRITING: HLAPIBus::write                                                *)
(***************************************************************************)
\* Mutant: the read starts without the readiness wait.
AfterWriteSkipsWait == "READING"

\* The stage after a write that succeeded.
AfterWrite == "AWAITING_READY"

\* An envelope that does not fit is rejected before the handle is touched.
\* Otherwise the buffer is passed to handle.write_all, which either writes
\* all of it (flush of a File does nothing) or fails with an I/O error.
Write ==
    /\ stage = "WRITING"
    /\ \E w \in {WriteBuffer(Request(op))} :
           IF ~w.ok
           THEN /\ End("FAILED", Err(w.err))
                /\ session' = CallEnds(session, FALSE, FALSE)
                /\ UNCHANGED <<handed, unanswered>>
           ELSE /\ handed' = Append(handed, w.buffer)
                /\ \/ /\ stage' = AfterWrite
                      /\ trace' = Append(trace, AfterWrite)
                      /\ inflight' = inflight + 1
                      /\ unanswered' = 1
                      /\ UNCHANGED <<result, session>>
                   \/ /\ End("FAILED", Err("Io"))
                      /\ session' = CallEnds(session, FALSE, FALSE)
                      /\ UNCHANGED unanswered
    /\ UNCHANGED <<op, ncalls, got, peerLeft, chunks, stream, hup, readVars, lastFind, codecVars, lastReset>>

(***************************************************************************)
(* HLAPIBus::reset.  It takes &mut self, as the calls do.  Both of its     *)
(* statements end in `?`: an error of write_all leaves the function with   *)
(* that error before the flush.  (reset() is declared without a return     *)
(* type, which `?` does not fit: the function is modelled by what its      *)
(* statements say.)  The flush of a File does nothing and cannot fail.     *)
(***************************************************************************)
Reset ==
    /\ CanCall
    /\ \/ lastReset' = [done |-> TRUE, wrote |-> DELIM, flushed |-> TRUE,
                        ok |-> TRUE, err |-> "none"]
       \/ lastReset' = [done |-> TRUE, wrote |-> DELIM, flushed |-> FALSE,
                        ok |-> FALSE, err |-> "Io"]
    /\ UNCHANGED <<stage, op, ncalls, trace, handed, inflight, got, peerVars, readVars,
                   result, session, lastFind, codecVars>>

(***************************************************************************)
(* AWAITING_READY: self.poller.wait_one()?                                 *)
(***************************************************************************)
\* The handle is registered for EPOLLIN, level-triggered.  epoll reports a
\* hang-up whether asked for or not.  The event returned is not looked at.
Readable == stream # <<>> \/ hup

WaitReturn ==
    /\ stage = "AWAITING_READY"
    /\ Readable
    /\ stage' = "READING"
    /\ trace' = Append(trace, "READING")
    /\ phase' = "lead"
    /\ UNCHANGED <<op, ncalls, handed, inflight, got, peerVars, acc, buf, taken, reply, result,
                   session, lastFind, codecVars, lastReset>>

\* wait_one fails while it is blocked (epoll_wait is interrupted): the error
\* is returned by `?`.  With an event pending epoll_wait returns it at once.
WaitFail ==
    /\ stage = "AWAITING_READY"
    /\ ~Readable
    /\ End("FAILED", Err("Io"))
    /\ session' = CallEnds(session, FALSE, FALSE)
    /\ UNCHANGED <<op, ncalls, handed, got, peerVars, readVars, lastFind, codecVars, lastReset>>

(***************************************************************************)
(* READING: the rest of read(), then the check of the reply's tag          *)
(***************************************************************************)
\* Mutant: a read that waits until it can fill the reader's buffer.
CanReadWhenFull == Len(stream) >= READ_BUF \/ hup

\* The handle has something to give: bytes, or end of file after a hang-up.
CanRead == stream # <<>> \/ hup

Read ==
    /\ stage = "READING"
    /\ CanRead
    /\ \E rd \in {RunRead(phase, acc, <<>>, stream, hup)} :
           /\ stream' = rd.stream
           /\ taken' = taken + (Len(stream) - Len(rd.stream))
           /\ phase' = rd.phase
           /\ acc' = rd.acc
           /\ buf' = rd.buf
           /\ reply' = [st |-> rd.st, err |-> rd.err, v |-> rd.v]
           /\ IF rd.st = "block"
              THEN UNCHANGED <<stage, trace, result, inflight, session>>
              ELSE \E r \in {Finish(op, rd)} :
                       /\ End(IF r.ok THEN "SUCCESS" ELSE "FAILED", r)
                       /\ session' = CallEnds(session, rd.st = "ok", r.ok)
    /\ UNCHANGED <<op, ncalls, handed, unanswered, got, peerLeft, chunks, hup, lastFind, codecVars, lastReset>>

(***************************************************************************)
(* The peer: the host at the other end of the device.  Its steps are       *)
(* interleaved with the two stages in which the call looks at the handle;  *)
(* what arrives during another stage is found at the next readiness wait   *)
(* all the same, since no other stage reads stream or hup.                 *)
(***************************************************************************)
Listening == stage \in {"AWAITING_READY", "READING"}

\* The piece of n bytes of the stream s reaches the handle.
Deliver(s, n, sent) ==
    /\ n < Len(s) => sent + 1 < MaxChunks
    /\ stream' = stream \o SubSeq(s, 1, n)
    /\ peerLeft' = SubSeq(s, n + 1, Len(s))
    /\ chunks' = IF n = Len(s) THEN 0 ELSE sent + 1

\* The peer answers a request it has received with the stream i; the first
\* piece arrives.
PeerReply(i, n) ==
    /\ Listening
    /\ unanswered > 0
    /\ peerLeft = <<>>
    /\ ~hup
    /\ unanswered' = unanswered - 1
    /\ got' = IF got = 0 THEN i ELSE got
    /\ Deliver(AllStreams[i], n, 0)
    /\ session' = IF i \in Orderly THEN session ELSE "lost"
    /\ UNCHANGED <<stage, op, ncalls, trace, handed, inflight, hup, readVars, result, lastFind, codecVars, lastReset>>

\* The next piece of the stream arrives.
PeerSend(n) ==
    /\ Listening
    /\ peerLeft # <<>>
    /\ Deliver(peerLeft, n, chunks)
    /\ UNCHANGED <<stage, op, ncalls, trace, handed, inflight, unanswered, got, hup, readVars,
                   result, session, lastFind, codecVars, lastReset>>

\* The peer closes its end; what it had not sent is never sent.
PeerHangup ==
    /\ Listening
    /\ ~hup
    /\ hup' = TRUE
    /\ peerLeft' = <<>>
    /\ chunks' = 0
    /\ session' = "lost"
    /\ UNCHANGED <<stage, op, ncalls, trace, handed, inflight, unanswered, got, stream,
                   readVars, result, lastFind, codecVars, lastReset>>

Next ==
    \/ \E o \in Ops : Call(o)
    \/ Write
    \/ WaitReturn
    \/ WaitFail
    \/ Read
    \/ Return
    \/ Reset
    \/ \E i \in 1..Len(PeerStreams) : \E n \in ChunkSizes(Len(PeerStreams[i])) : PeerReply(i, n)
    \/ \E n \in ChunkSizes(Len(peerLeft)) : PeerSend(n)
    \/ PeerHangup

Spec == Init /\ [][Next]_vars

(***************************************************************************)
(* Progress.  The thread of the caller runs: a wait or a read that can     *)
(* return does return.  Nothing is assumed of the peer.  The replies are   *)
(* the device list, the method list, the device list longer than READ_BUF  *)
(* and, for a session that has lost its alignment, the stream without its  *)
(* leading delimiter.                                                      *)
(***************************************************************************)
LiveStreams == {1, 2, Len(WellFormedStreams) + 1, Big}

NextLive ==
    \/ \E o \in Ops : Call(o)
    \/ Write
    \/ WaitReturn
    \/ WaitFail
    \/ Read
    \/ Return
    \/ \E i \in LiveStreams : \E n \in ChunkSizes(Len(AllStreams[i])) : PeerReply(i, n)
    \/ \E n \in ChunkSizes(Len(peerLeft)) : PeerSend(n)
    \/ PeerHangup

\* Weak fairness of Read, WF_vars(Read), written out: a Read whose guard
\* holds always changes vars (it takes bytes from the handle or, at end of
\* file, ends the call), so the guard is ENABLED <<Read>>_vars.
FairRead == []<>~(stage = "READING" /\ CanRead) \/ []<><<Read>>_vars

SpecLive == Init /\ [][NextLive]_vars /\ WF_vars(WaitReturn) /\ FairRead

(***************************************************************************)
(* write() alone, on Invoke requests whose envelope is about MAX_WRITE     *)
(* bytes long                                                              *)
(***************************************************************************)
\* The longest method name whose envelope fits in MAX_WRITE bytes.
FitName == MAX_WRITE - Len(Envelope(EncSend(SendInvoke(UuidA, <<>>))))

WriteInputs ==
    { [name |-> "write", device |-> d, cname |-> [i \in 1..n |-> 97]] :
        d \in {UuidA, UuidB}, n \in (FitName - NameSlack)..(FitName + NameSlack) }

InitWrite ==
    /\ stage = "WRITING"
    /\ op \in WriteInputs
    /\ ncalls = 1
    /\ trace = <<"WRITING">>
    /\ handed = <<>>
    /\ inflight = 0
    /\ unanswered = 0
    /\ got = 0
    /\ peerLeft = <<>>
    /\ chunks = 0
    /\ stream = <<>>
    /\ hup = FALSE
    /\ phase = "none"
    /\ acc = <<>>
    /\ buf = <<>>
    /\ taken = 0
    /\ reply = NoReply
    /\ result = NoResult
    /\ session = "ok"
    /\ lastFind = NoFind
    /\ given = NoGiven
    /\ wire = <<>>
    /\ back = NoBack
    /\ lastReset = NoReset

NextWrite == Write

SpecWrite == InitWrite /\ [][NextWrite]_vars

(***************************************************************************)
(* The encoding alone: a value is written into an envelope as write() does *)
(* and the payload of the envelope is decoded as read() does.              *)
(***************************************************************************)
busVars ==
    <<stage, op, ncalls, trace, handed, inflight, unanswered, got, peerLeft, chunks,
      stream, hup, phase, acc, buf, taken, reply, result, session, lastFind, lastReset>>

InitCodec ==
    /\ stage = "IDLE"
    /\ op = NoOp
    /\ ncalls = 0
    /\ trace = <<>>
    /\ handed = <<>>
    /\ inflight = 0
    /\ unanswered = 0
    /\ got = 0
    /\ peerLeft = <<>>
    /\ chunks = 0
    /\ stream = <<>>
    /\ hup = FALSE
    /\ phase = "none"
    /\ acc = <<>>
    /\ buf = <<>>
    /\ taken = 0
    /\ reply = NoReply
    /\ result = NoResult
    /\ session = "ok"
    /\ lastFind = NoFind
    /\ given \in CodecInputs
    /\ wire = <<>>
    /\ back = NoBack
    /\ lastReset = NoReset

\* DELIM, serde_json::to_writer(value), DELIM
Encode ==
    /\ wire = <<>>
    /\ wire' = Envelope(IF given.side = "send" THEN EncSend(given.v) ELSE EncReceive(given.v))
    /\ UNCHANGED <<busVars, given, back>>

\* The decoder on the bytes between the two delimiters: the value is
\* decoded when the bytes are one JSON text that has the shape of the type.
Decode ==
    /\ wire # <<>>
    /\ ~back.done
    /\ \E p \in {ParseValue(SubSeq(wire, 2, Len(wire) - 1), 1)} :
       \E d \in {IF p.st # "ok" THEN [ok |-> FALSE, v |-> SendList]
                 ELSE IF given.side = "send" THEN DecSend(p.v) ELSE DecReceive(p.v)} :
           back' = [done |-> TRUE, ok |-> d.ok /\ p.i = Len(wire) - 1, v |-> d.v]
    /\ UNCHANGED <<busVars, given, wire>>

NextCodec == Encode \/ Decode

SpecCodec == InitCodec /\ [][NextCodec]_vars

(***************************************************************************)
(* Properties                                                              *)
(***************************************************************************)
Range(f) == {f[i] : i \in 1..Len(f)}

\* C1: every call goes through WRITING, AWAITING_READY, READING in that
\* order and ends in SUCCESS or FAILED; the whole envelope has been handed
\* to the handle before the wait starts; no byte is read before the wait has
\* returned; a failure ends the call without any later stage.
C1_StageOrder ==
    LET order == <<"WRITING", "AWAITING_READY", "READING", "SUCCESS">>
    IN  /\ Len(trace) <= 4
        /\ (stage = "IDLE") = (trace = <<>>)
        /\ trace # <<>> => trace[Len(trace)] = stage /\ trace[1] = "WRITING"
        /\ \A k \in 1..Len(trace) : trace[k] \in {order[k], "FAILED"}
        /\ \A k \in 1..(Len(trace) - 1) : trace[k] \notin {"SUCCESS", "FAILED"}
        /\ "AWAITING_READY" \in Range(trace)
               => handed = <<Envelope(EncSend(Request(op)))>>
        /\ "READING" \notin Range(trace)
               => taken = 0 /\ phase = "none" /\ reply = NoReply /\ buf = <<>>

C1_Witness ==
    /\ trace = <<"WRITING", "AWAITING_READY", "READING", "SUCCESS">>
    /\ taken > 0

\* C2 as claimed: a reply stream without its leading delimiter, without its
\* trailing delimiter or cut short in the payload ends the read as FAILED
\* with the unexpected-end-of-stream error: once the wait has returned the
\* call is never blocked and never ends otherwise.
C2_MalformedReplyFailsWithEof ==
    (ncalls = 1 /\ got \in Malformed /\ peerLeft = <<>> /\ "READING" \in Range(trace))
        => IF stage = "READING" THEN CanRead
           ELSE stage = "FAILED" /\ result.err = "UnexpectedEof"

\* C3 as claimed: a successful read takes exactly one envelope from the
\* handle; no later byte is in the reader's buffer when read() returns.
C3_ReadTakesOneEnvelope ==
    stage = "SUCCESS" => buf = <<>>

\* C4: write() hands the whole envelope to the handle when it is at most
\* MAX_WRITE bytes long, and nothing otherwise: the call then fails, with
\* WriteZero when only the trailing delimiter does not fit and InvalidData
\* when the payload does not.
C4_OversizeRejected ==
    stage # "WRITING" =>
        LET e == Envelope(EncSend(Request(op)))
        IN  IF Len(e) <= MAX_WRITE
            THEN handed = <<e>>
            ELSE /\ handed = <<>>
                 /\ stage = "FAILED"
                 /\ result = Err(IF Len(e) = MAX_WRITE + 1 THEN "WriteZero"
                                 ELSE "InvalidData")

C4_Witness ==
    /\ Len(Envelope(EncSend(Request(op)))) = MAX_WRITE + 1
    /\ stage = "FAILED"
    /\ handed = <<>>

\* C5: list() succeeds only on a reply tagged List and methods() only on a
\* reply tagged Methods; a reply read in full with another tag fails the call
\* with InvalidData.
C5_ReplyTagChecked ==
    (stage \in {"SUCCESS", "FAILED"} /\ op.name \in {"list", "methods"}) =>
        LET want == IF op.name = "list" THEN "List" ELSE "Methods"
        IN  /\ stage = "SUCCESS" => reply.st = "ok" /\ reply.v.tag = want
            /\ (reply.st = "ok" /\ reply.v.tag # want)
                   => stage = "FAILED" /\ result = Err("InvalidData")
            /\ (reply.st = "ok" /\ reply.v.tag = want) => stage = "SUCCESS"

C5_Witness ==
    /\ stage = "FAILED"
    /\ op.name = "list"
    /\ reply.st = "ok"
    /\ reply.v.tag = "Methods"
    /\ result = Err("InvalidData")

\* C6 as claimed: the error of a call whose reply is tagged Error carries the
\* message of that reply.
C6_ErrorMessageSurfaced ==
    (stage = "FAILED" /\ reply.st = "ok" /\ reply.v.tag = "Error" /\ reply.v.msg.some)
        => result.msg = reply.v.msg

\* C7: at most one request is in flight: no call starts writing while an
\* envelope written by an earlier call is waiting for the end of that call.
C7_OneInFlight ==
    /\ inflight <= 1
    /\ Len(handed) <= 1
    /\ stage \in {"IDLE", "WRITING"} => inflight = 0
    /\ stage \in {"AWAITING_READY", "READING"} => inflight = 1

C7_Witness ==
    /\ ncalls = 2
    /\ stage = "AWAITING_READY"
    /\ inflight = 1

\* C8 as claimed: with no byte from the peer the call does not leave
\* AWAITING_READY for READING, and a call in READING is never blocked: the
\* handle always has something to give it.
C8_OnlyTheWaitBlocks ==
    /\ (stage = "AWAITING_READY" /\ stream = <<>> /\ ~hup) => ~Readable
    /\ stage = "READING" => CanRead

\* C9 as claimed: when READING starts, the handle holds an unread byte.
C9_ReadingStartsWithData ==
    (stage = "READING" /\ taken = 0) => stream # <<>>

\* C10: find(name) returns the device of the first descriptor of the list
\* reply that has a type name equal to name; it fails with NotFound exactly
\* when list() succeeded and no descriptor has one; when list() fails, find
\* fails with the error of list().
C10_Find ==
    (op.name = "find" /\ stage \in {"SUCCESS", "FAILED"}) =>
        LET listOk == reply.st = "ok" /\ reply.v.tag = "List"
            ds == reply.v.devices
            Hit(i) == \E k \in 1..Len(ds[i].components) : ds[i].components[k] = op.cname
        IN  /\ result.ok =>
                /\ listOk
                /\ \E i \in 1..Len(ds) :
                       /\ Hit(i)
                       /\ \A j \in 1..(i - 1) : ~Hit(j)
                       /\ result = OkDevice(ds[i].device_id)
            /\ (listOk /\ \E i \in 1..Len(ds) : Hit(i)) => result.ok
            /\ (result.err = "NotFound") = (listOk /\ ~\E i \in 1..Len(ds) : Hit(i))
            /\ (~listOk /\ reply.st = "err") => result = Err(reply.err)
            /\ (~listOk /\ reply.st = "ok") => result = Err("InvalidData")
            /\ (~listOk /\ reply.st = "block") => result = Err("Io")
            /\ (listOk /\ reply.v = ListReply /\ op.cname = turtle)
                   => result = OkDevice(UuidA)
            /\ (listOk /\ reply.v = ListReply /\ op.cname = radar)
                   => result = Err("NotFound")

C10_Witness ==
    /\ op.name = "find"
    /\ op.cname = turtle
    /\ stage = "SUCCESS"
    /\ reply.v = ListReply2
    /\ result = OkDevice(UuidB)

\* C11: find() keeps no cache.  Every find() hands exactly one envelope, the
\* List request, to the handle and reads one reply; what it returns is
\* decided by the reply read in that call alone (the first device of that
\* list with the type name, NotFound when that list has none), whatever an
\* earlier find() returned.
C11_FindAsksEveryTime ==
    (op.name = "find" /\ stage \in {"SUCCESS", "FAILED"}) =>
        LET ds == reply.v.devices
            Hit(i) == \E k \in 1..Len(ds[i].components) : ds[i].components[k] = op.cname
            scanned == result.ok \/ result.err = "NotFound"
        IN  /\ Len(handed) <= 1
            /\ handed # <<>> => handed[1] = Envelope(EncSend(SendList))
            /\ scanned =>
                   /\ handed # <<>>
                   /\ taken > 0
                   /\ reply.st = "ok"
                   /\ reply.v.tag = "List"
                   /\ got \in 1..Len(WellFormedStreams) => reply.v = PeerValues[got]
                   /\ result.ok = \E i \in 1..Len(ds) : Hit(i)
                   /\ result.ok =>
                          result.device = ds[CHOOSE i \in 1..Len(ds) :
                              Hit(i) /\ \A j \in 1..(i - 1) : ~Hit(j)].device_id
            /\ (scanned /\ reply.v = ListReply2 /\ op.cname = turtle)
                   => result = OkDevice(UuidB)
            /\ (scanned /\ reply.v = ListReply /\ op.cname = turtle)
                   => result = OkDevice(UuidA)

\* Two find(turtle) in a row: the first answered for ListReply, the second
\* for ListReply2, in which another device comes first.
C11_Witness ==
    /\ lastFind = [cname |-> turtle, stream |-> 1, device |-> UuidA]
    /\ op.name = "find"
    /\ op.cname = turtle
    /\ stage = "SUCCESS"
    /\ Len(handed) = 1
    /\ reply.v = ListReply2
    /\ result = OkDevice(UuidB)

\* C12: no failure is retried.  Whatever its outcome, a call enters WRITING,
\* AWAITING_READY and READING at most once each, hands at most one envelope
\* to the handle, and once it has failed nothing but its return follows.
C12_NoRetry ==
    /\ \A st \in {"WRITING", "AWAITING_READY", "READING", "SUCCESS", "FAILED"} :
           Cardinality({k \in 1..Len(trace) : trace[k] = st}) <= 1
    /\ Len(handed) <= 1
    /\ "FAILED" \in Range(trace) => stage = "FAILED"
    /\ stage = "FAILED" =>
           /\ result.err \in {"WriteZero", "InvalidData", "Io", "UnexpectedEof", "NotFound"}
           /\ "AWAITING_READY" \notin Range(trace) => taken = 0
           /\ "READING" \notin Range(trace) => taken = 0 /\ reply = NoReply

\* A call that failed on the tag of its reply after one write, one wait and
\* one read.
C12_Witness ==
    /\ stage = "FAILED"
    /\ trace = <<"WRITING", "AWAITING_READY", "READING", "FAILED">>
    /\ Len(handed) = 1
    /\ reply.st = "ok"
    /\ result = Err("InvalidData")

\* C13: what a call hands to the handle is one envelope in one write_all:
\* the byte 0x00, the encoded request of that call, the byte 0x00; the
\* request holds no 0x00 byte of its own, and a call makes one such write at
\* most.
C13_OneEnvelopePerWrite ==
    /\ Len(handed) <= 1
    /\ \A k \in 1..Len(handed) :
           LET e == handed[k]
               inner == SubSeq(e, 2, Len(e) - 1)
           IN  /\ Len(e) >= 2
               /\ <<e[1]>> = DELIM
               /\ <<e[Len(e)]>> = DELIM
               /\ inner = EncSend(Request(op))
               /\ \A j \in 1..Len(inner) : <<inner[j]>> # DELIM
               /\ ParseValue(inner, 1).st = "ok"
               /\ ParseValue(inner, 1).i = Len(inner) + 1
    /\ stage \in {"AWAITING_READY", "READING", "SUCCESS"} => Len(handed) = 1

C13_Witness ==
    /\ stage = "AWAITING_READY"
    /\ op.name = "methods"
    /\ handed = <<DELIM \o EncSend(SendMethods(UuidA)) \o DELIM>>

\* C14: a reply that starts with the delimiter and whose payload is not a
\* reply value fails the call with InvalidData, not with the framing error
\* UnexpectedEof, as soon as it has arrived; the method list sent under the
\* tag of a device list is such a reply: no call that is answered with it
\* succeeds, and none returns devices or methods.
C14_UndecodableReplyIsInvalidData ==
    /\ (/\ ncalls = 1
        /\ got \in Undecodable
        /\ taken + Len(stream) = Len(PeerStreams[got])
        /\ "READING" \in Range(trace))
           => IF stage = "READING" THEN CanRead
              ELSE /\ stage = "FAILED"
                   /\ reply.st = "err"
                   /\ reply.err = "InvalidData"
                   /\ result = Err("InvalidData")
    /\ got = MisTagged =>
           /\ stage # "SUCCESS"
           /\ ~result.ok
           /\ result.devices = <<>>
           /\ result.methods = <<>>
           /\ reply.st # "ok"

C14_Witness ==
    /\ ncalls = 1
    /\ got = MisTagged
    /\ op.name = "list"
    /\ stage = "FAILED"
    /\ taken = Len(PeerStreams[MisTagged])
    /\ result = Err("InvalidData")

\* C15: round trip.  A request or reply value written into an envelope and
\* decoded from the bytes between the two delimiters comes back equal:
\* device lists, method lists with and without the descriptions, Error with
\* and without a message, Result also when empty, List, Methods and Invoke
\* requests, strings with quotes and backslashes included.
C15_RoundTrip ==
    /\ wire # <<>> =>
           /\ SubSeq(wire, 1, 1) = DELIM
           /\ SubSeq(wire, Len(wire), Len(wire)) = DELIM
           /\ \A k \in 2..(Len(wire) - 1) : <<wire[k]>> # DELIM
    /\ back.done => back.ok /\ back.v = given.v

C15_Witness ==
    /\ back.done
    /\ given.side = "recv"
    /\ given.v = RecvMethods(<<Method(move, <<>>, <<>>, Some(quoted), Some(<<>>)),
                               Method(move, <<Type(int), Type(quoted)>>, bool, None, None)>>)
    /\ back.v = given.v

\* C16: a list() or methods() that succeeds returns the descriptors of the
\* reply the peer sent, all of them, in the order sent, each with its type
\* names or parameters in the order sent; the Methods reply with the entry
\* {name "move", parameters [int], returnType "bool"} gives one method with
\* one parameter.
C16_ReturnedAsReceived ==
    (stage = "SUCCESS" /\ op.name \in {"list", "methods"}) =>
        /\ reply.st = "ok"
        /\ got \in 1..Len(WellFormedStreams) => reply.v = PeerValues[got]
        /\ op.name = "list" =>
               /\ result = OkDevices(reply.v.devices)
               /\ got = 1 => /\ Len(result.devices) = 2
                             /\ result.devices[1] = Descriptor(UuidA, <<turtle, inventory>>)
                             /\ result.devices[2] = Descriptor(UuidB, <<camera>>)
        /\ op.name = "methods" =>
               /\ result = OkMethods(reply.v.methods)
               /\ got = 2 => /\ Len(result.methods) = 1
                             /\ result.methods[1].name = move
                             /\ result.methods[1].parameters = <<Type(int)>>
                             /\ result.methods[1].return_type = bool

C16_Witness ==
    /\ stage = "SUCCESS"
    /\ op.name = "methods"
    /\ got = 2
    /\ Len(result.methods) = 1
    /\ Len(result.methods[1].parameters) = 1

\* C17 as claimed: reset() passes the one delimiter byte to the handle,
\* flushes, and comes to its end whether or not the write failed: no error
\* leaves it.
C17_ResetSwallowsFailure ==
    lastReset.done =>
        /\ lastReset.wrote = DELIM
        /\ lastReset.flushed
        /\ lastReset.ok
        /\ lastReset.err = "none"

\* The handle and the peer hold no byte the bus has not read.
NothingUnread == stream = <<>> /\ peerLeft = <<>>

\* The bytes the call has not read yet are the rest of the one envelope the
\* peer answered its request with: the read starts at the first byte of that
\* envelope and stays inside it.
ReadingOwnReply ==
    IF got = 0 THEN NothingUnread /\ taken = 0 /\ unanswered = 1
    ELSE /\ got \in 1..Len(WellFormedStreams)
         /\ unanswered = 0
         /\ stream \o peerLeft = SubSeq(PeerStreams[got], taken + 1, Len(PeerStreams[got]))

\* read() returned the reply the peer sent to this call, having taken that
\* envelope from the handle to its last byte and nothing more.
TookOwnReply ==
    /\ got \in 1..Len(WellFormedStreams)
    /\ taken = Len(PeerStreams[got])
    /\ NothingUnread
    /\ unanswered = 0
    /\ buf = <<>>
    /\ reply.st = "ok"
    /\ reply.v = PeerValues[got]

\* C18: while the peer has sent one well-formed envelope per request, after
\* the request, and every call so far has succeeded, no byte is left over
\* between calls, the read of each call starts at the first byte of the
\* reply to its own request, and the call returns what that reply holds.
C18_AlignedWhileAllSucceed ==
    session = "ok" =>
        /\ stage # "FAILED"
        /\ stage \in {"IDLE", "WRITING"} => NothingUnread /\ unanswered = 0
        /\ stage \in {"AWAITING_READY", "READING"} => ReadingOwnReply
        /\ stage = "SUCCESS" =>
               /\ TookOwnReply
               /\ op.name = "list" => result = OkDevices(PeerValues[got].devices)
               /\ op.name = "methods" => result = OkMethods(PeerValues[got].methods)
               /\ op.name = "find" => result = find(op.cname, OkDevices(PeerValues[got].devices))

\* The last call of a session in which every call succeeded: a methods()
\* that returns the methods of the reply to its own request.
C18_Witness ==
    /\ session = "ok"
    /\ ncalls = MaxCalls
    /\ stage = "SUCCESS"
    /\ op.name = "methods"
    /\ got = 2
    /\ result = OkMethods(MethodsReply.methods)

\* C19: a call that read its reply and failed on it (another tag than the
\* one it wants, an Error reply, no device of that name) has taken the whole
\* envelope, trailing delimiter included; nothing of it is left in the
\* handle, and the calls after it read their own replies from the first byte.
C19_MismatchKeepsAlignment ==
    session = "mismatch" =>
        /\ stage = "FAILED" =>
               /\ TookOwnReply
               /\ result.err \in {"InvalidData", "NotFound"}
               /\ result.err = "NotFound" <=> (op.name = "find" /\ reply.v.tag = "List")
        /\ stage \in {"IDLE", "WRITING"} => NothingUnread /\ unanswered = 0
        /\ stage \in {"AWAITING_READY", "READING"} => ReadingOwnReply
        /\ stage = "SUCCESS" => TookOwnReply

\* After a call that failed on the reply it had read, a list() succeeded on
\* the reply to its own request, read to its last byte.
C19_Witness ==
    /\ session = "mismatch"
    /\ ncalls = 2
    /\ stage = "SUCCESS"
    /\ op.name = "list"
    /\ got = 1
    /\ taken = Len(PeerStreams[1])
    /\ result = OkDevices(ListReply.devices)

\* The reply of the stream i as list() or methods() returns it.
Returned(name, i) ==
    IF name = "methods" THEN OkMethods(MethodsReply.methods)
    ELSE OkDevices(IF i = Big THEN BigReply.devices ELSE ListReply.devices)

\* A list() or methods() has written its request, and what the handle holds
\* for it is one envelope, whole, whose tag is the one the call wants.
OwnEnvelopeArrived ==
    /\ stage \in {"AWAITING_READY", "READING"}
    /\ got \in {1, 2, Big}
    /\ op.name = (IF got = 2 THEN "methods" ELSE "list")
    /\ peerLeft = <<>>
    /\ stream = SubSeq(AllStreams[got], taken + 1, Len(AllStreams[got]))

\* C20: progress.  Once the write of a list() or methods() has succeeded and
\* the envelope that answers it, with the tag the call wants, has arrived
\* whole on the handle, the call reaches SUCCESS and returns what the
\* envelope holds, also for the envelope longer than READ_BUF bytes and in
\* whatever pieces it arrived: from then on the call leaves its stage only
\* for READING or SUCCESS, and it does reach SUCCESS.
C20_Progress ==
    /\ [][(OwnEnvelopeArrived /\ stage' # stage) =>
              /\ stage' \in {"READING", "SUCCESS"}
              /\ stage' = "SUCCESS" => result' = Returned(op.name, got)]_vars
    /\ OwnEnvelopeArrived ~> (stage = "SUCCESS" /\ result = Returned(op.name, got))

\* The list() answered with the long envelope, sent in two pieces, has
\* returned its device.
C20_Witness ==
    /\ stage = "SUCCESS"
    /\ op.name = "list"
    /\ got = Big
    /\ chunks = 0
    /\ taken = Len(AllStreams[Big])
    /\ taken > READ_BUF
    /\ result = OkDevices(BigReply.devices)

====
